---- MODULE Spec2Model ----
(***************************************************************************)
(* Model of the Raffle ink! contract (src/raffle/lib.rs).                  *)
(*                                                                         *)
(* Balances are counted in units of 10^12 of the chain's smallest unit, so *)
(* that DEPOSIT_MIN = 10_000_000_000_000 is 10 and DEPOSIT_MAX is 100; all *)
(* deposits of the model are multiples of that unit.  The pot is a u128    *)
(* and cannot overflow: 2^32 deposits of at most 10^14 stay below 2^128.   *)
(*                                                                         *)
(* AccountId is opaque to the contract (it is only compared for equality), *)
(* so accounts are numbered in the order in which they first register: a   *)
(* participate call names a registered account or the next fresh one.      *)
(* Sequences are 1-based: slot i of a Rust array or Vec is element i + 1.  *)
(***************************************************************************)
EXTENDS Integers, Sequences, FiniteSets, TLC

\* ---------------------------------------------------------------- constants
DEPOSIT_MIN == 10
DEPOSIT_MAX == 100
RAFFLE_TRIGGER == 5
RAFFLE_WINNERS == 2
DURATION_IN_MS == 5

\* ------------------------------------------------------------------- bounds
NumAccounts == 6
MaxTime == 6
MaxOpenEvents == 1

Accounts == 1..NumAccounts
NoAccount == 0

\* the constructor argument: an account that registers first, or one that
\* registers last or never
PotReceivers == {1, NumAccounts}

\* transferred_balance() values tried by callers.  An account sends an amount
\* below DEPOSIT_MIN, an amount above DEPOSIT_MAX, or the in-limit amount it
\* owns: DEPOSIT_MIN, DEPOSIT_MIN + 1 or DEPOSIT_MAX, in turn by account.
Purse(account) ==
    CASE account % 3 = 1 -> DEPOSIT_MIN
      [] account % 3 = 2 -> DEPOSIT_MIN + 1
      [] OTHER -> DEPOSIT_MAX

DepositInputs(account) ==
    {DEPOSIT_MIN - 1, Purse(account), DEPOSIT_MAX + 1}

\* participant arguments tried by callers in the current state: every
\* registered account and the next fresh one
ParticipantInputs(list) ==
    {a \in Accounts : a <= Len(list) + 1}

\* first four bytes of the hash returned by env().random(seed)
RandomHashes ==
    {<<0, 0, 0, 0>>, <<0, 0, 1, 3>>, <<1, 2, 0, 4>>, <<127, 255, 255, 255>>}

Errors ==
    {"EndowmentOutOfLimits", "AlreadyParticipating", "RaffleFinished",
     "TransferError", "TooFewParticpants", "RaffleStillOpen"}

VARIABLES
    pot_receiver,        \* Raffle.pot_receiver
    total_balance,       \* Raffle.total_balance
    enough_participants, \* Raffle.enough_participants
    winners,             \* Raffle.winners
    participant_list,    \* Raffle.participant_list
    winner_list,         \* Raffle.winner_list, NoAccount for None
    start_time,          \* Raffle.start_time
    now,                 \* env().block_timestamp()
    events,              \* events emitted so far, in order
    transfers,           \* env().transfer calls made so far, in order
    op,                  \* the message executed by the last step
    call_participant,    \* its participant argument
    call_value,          \* its transferred balance
    call_random,         \* the hash it obtained from env().random, <<>> if none
    result               \* its return value

RaffleState ==
    <<pot_receiver, total_balance, enough_participants, winners,
      participant_list, winner_list, start_time>>

vars ==
    <<pot_receiver, total_balance, enough_participants, winners,
      participant_list, winner_list, start_time, now, events, transfers,
      op, call_participant, call_value, call_random, result>>

Range(s) == {s[i] : i \in 1..Len(s)}

\* ------------------------------------------------------------------ events
NewParticipant(participant, value) ==
    [type |-> "NewParticipant", participant |-> participant, value |-> value]

RaffleWinner(winner, index) ==
    [type |-> "RaffleWinner", winner |-> winner, index |-> index]

RaffleOpen(time_remaining) ==
    [type |-> "RaffleOpen", time_remaining |-> time_remaining]

EventsOfType(t) == SelectSeq(events, LAMBDA e : e.type = t)

\* ----------------------------------------------------------------- helpers
deposit_out_of_limits_upper_unchecked(value) ==
    value < DEPOSIT_MIN

deposit_out_of_limits(value) ==
    value < DEPOSIT_MIN \/ value > DEPOSIT_MAX

is_participating_last_only(account) ==
    /\ Len(participant_list) > 0
    /\ participant_list[Len(participant_list)] = account

is_participating(account) ==
    \E i \in 1..Len(participant_list) : participant_list[i] = account

finished ==
    winners = RAFFLE_WINNERS

participate_check_no_finished(participant, value) ==
    IF deposit_out_of_limits(value) THEN "EndowmentOutOfLimits"
    ELSE IF is_participating(participant) THEN "AlreadyParticipating"
    ELSE "Ok"

participate_check_finished_first(participant, value) ==
    IF winners = RAFFLE_WINNERS THEN "RaffleFinished"
    ELSE IF deposit_out_of_limits(value) THEN "EndowmentOutOfLimits"
    ELSE IF is_participating(participant) THEN "AlreadyParticipating"
    ELSE "Ok"

\* the three early returns of participate, in the order of the code
participate_check(participant, value) ==
    IF deposit_out_of_limits(value) THEN "EndowmentOutOfLimits"
    ELSE IF winners = RAFFLE_WINNERS THEN "RaffleFinished"
    ELSE IF is_participating(participant) THEN "AlreadyParticipating"
    ELSE "Ok"

push_front(list, participant) ==
    <<participant>> \o list

push(list, participant) ==
    Append(list, participant)

\* self.total_balance += value
add_deposit_overwriting(balance, value) ==
    value

add_deposit(balance, value) ==
    balance + value

trigger_reached_at_most(len) ==
    len <= RAFFLE_TRIGGER

trigger_reached_at_least(len) ==
    len >= RAFFLE_TRIGGER

trigger_reached_off_by_one(len) ==
    len = RAFFLE_TRIGGER + 1

trigger_reached(len) ==
    len = RAFFLE_TRIGGER

time_diff_reversed ==
    start_time - now

time_diff ==
    now - start_time

countdown_ongoing_short ==
    time_diff < DURATION_IN_MS - 1

countdown_ongoing ==
    time_diff < DURATION_IN_MS

draw_winner_check_countdown_first ==
    IF winners = RAFFLE_WINNERS THEN "RaffleFinished"
    ELSE IF countdown_ongoing THEN "RaffleStillOpen"
    ELSE IF ~enough_participants THEN "TooFewParticpants"
    ELSE "Ok"

draw_winner_check_retry_after_failed_transfer ==
    IF winners = RAFFLE_WINNERS /\ transfers[Len(transfers)].ok
    THEN "RaffleFinished"
    ELSE IF ~enough_participants THEN "TooFewParticpants"
    ELSE IF countdown_ongoing THEN "RaffleStillOpen"
    ELSE "Ok"

\* the three early returns of draw_winner, in the order of the code
draw_winner_check ==
    IF winners = RAFFLE_WINNERS THEN "RaffleFinished"
    ELSE IF ~enough_participants THEN "TooFewParticpants"
    ELSE IF countdown_ongoing THEN "RaffleStillOpen"
    ELSE "Ok"

as_u32_be(arr) ==
    arr[1] * 16777216 + arr[2] * 65536 + arr[3] * 256 + arr[4]

get_random_number(random_hash) ==
    as_u32_be(random_hash)

get_random_index_by_trigger(random_hash) ==
    get_random_number(random_hash) % RAFFLE_TRIGGER

get_random_index(random_hash) ==
    get_random_number(random_hash) % Len(participant_list)

\* slot of winner_list written by the draw (sequences are 1-based)
winner_slot_from_end ==
    RAFFLE_WINNERS - winners

winner_slot ==
    winners + 1

pot_due_on_any_draw(count) ==
    count >= 1

pot_due(count) ==
    count = RAFFLE_WINNERS

transfer_pot(transfer_ok) ==
    [destination |-> pot_receiver, value |-> total_balance, ok |-> transfer_ok]

\* ----------------------------------------------------------------- queries
participants ==
    Len(participant_list)

winner_address ==
    winner_list

\* -------------------------------------------------------------------- Init
Init ==
    /\ pot_receiver \in PotReceivers
    /\ total_balance = 0
    /\ enough_participants = FALSE
    /\ winners = 0
    /\ participant_list = <<>>
    /\ winner_list = [i \in 1..RAFFLE_WINNERS |-> NoAccount]
    /\ start_time = 0
    /\ now = 1
    /\ events = <<>>
    /\ transfers = <<>>
    /\ op = "new"
    /\ call_participant = NoAccount
    /\ call_value = 0
    /\ call_random = <<>>
    /\ result = "Ok"

\* ----------------------------------------------------------------- actions
participate(participant, value) ==
    LET check == participate_check(participant, value) IN
    /\ op' = "participate"
    /\ call_participant' = participant
    /\ call_value' = value
    /\ call_random' = <<>>
    /\ result' = check
    /\ IF check # "Ok"
       THEN UNCHANGED <<RaffleState, events>>
       ELSE /\ participant_list' = push(participant_list, participant)
            /\ total_balance' = add_deposit(total_balance, value)
            /\ events' = Append(events, NewParticipant(participant, value))
            /\ IF trigger_reached(Len(participant_list'))
               THEN /\ enough_participants' = TRUE
                    /\ start_time' = now
               ELSE UNCHANGED <<enough_participants, start_time>>
            /\ UNCHANGED <<pot_receiver, winners, winner_list>>
    /\ UNCHANGED <<now, transfers>>

draw_winner_removing_winner(random_hash, transfer_ok) ==
    LET check == draw_winner_check IN
    /\ op' = "draw_winner"
    /\ call_participant' = NoAccount
    /\ call_value' = 0
    /\ IF check = "RaffleStillOpen"
       THEN /\ Len(EventsOfType("RaffleOpen")) < MaxOpenEvents
            /\ result' = check
            /\ call_random' = <<>>
            /\ events' = Append(events, RaffleOpen(time_diff))
            /\ UNCHANGED <<RaffleState, transfers>>
       ELSE IF check # "Ok"
       THEN /\ result' = check
            /\ call_random' = <<>>
            /\ UNCHANGED <<RaffleState, events, transfers>>
       ELSE LET winner_index == get_random_index(random_hash)
                winner == participant_list[winner_index + 1]
            IN
            /\ call_random' = random_hash
            /\ winner_list' = [winner_list EXCEPT ![winner_slot] = winner]
            /\ winners' = winners + 1
            /\ IF pot_due(winners')
               THEN /\ transfers' = Append(transfers, transfer_pot(transfer_ok))
                    /\ IF ~transfer_ok
                       THEN /\ result' = "TransferError"
                            /\ UNCHANGED events
                       ELSE /\ result' = "Ok"
                            /\ events' =
                                 Append(events, RaffleWinner(winner, winner_index))
               ELSE /\ result' = "Ok"
                    /\ events' = Append(events, RaffleWinner(winner, winner_index))
                    /\ UNCHANGED transfers
            /\ participant_list' =
                 [i \in 1..(Len(participant_list) - 1) |->
                    IF i <= winner_index THEN participant_list[i]
                    ELSE participant_list[i + 1]]
            /\ UNCHANGED <<pot_receiver, total_balance, enough_participants,
                           start_time>>
    /\ UNCHANGED now

draw_winner(random_hash, transfer_ok) ==
    LET check == draw_winner_check IN
    /\ op' = "draw_winner"
    /\ call_participant' = NoAccount
    /\ call_value' = 0
    /\ IF check = "RaffleStillOpen"
       THEN /\ Len(EventsOfType("RaffleOpen")) < MaxOpenEvents
            /\ result' = check
            /\ call_random' = <<>>
            /\ events' = Append(events, RaffleOpen(time_diff))
            /\ UNCHANGED <<RaffleState, transfers>>
       ELSE IF check # "Ok"
       THEN /\ result' = check
            /\ call_random' = <<>>
            /\ UNCHANGED <<RaffleState, events, transfers>>
       ELSE LET winner_index == get_random_index(random_hash)
                winner == participant_list[winner_index + 1]
            IN
            /\ call_random' = random_hash
            /\ winner_list' = [winner_list EXCEPT ![winner_slot] = winner]
            /\ winners' = winners + 1
            /\ IF pot_due(winners')
               THEN /\ transfers' = Append(transfers, transfer_pot(transfer_ok))
                    /\ IF ~transfer_ok
                       THEN /\ result' = "TransferError"
                            /\ UNCHANGED events
                       ELSE /\ result' = "Ok"
                            /\ events' =
                                 Append(events, RaffleWinner(winner, winner_index))
               ELSE /\ result' = "Ok"
                    /\ events' = Append(events, RaffleWinner(winner, winner_index))
                    /\ UNCHANGED transfers
            /\ UNCHANGED <<pot_receiver, total_balance, enough_participants,
                           participant_list, start_time>>
    /\ UNCHANGED now

\* the host produces the next block: block_timestamp advances
advance_block ==
    /\ now < MaxTime
    /\ now' = now + 1
    /\ op' = "advance_block"
    /\ call_participant' = NoAccount
    /\ call_value' = 0
    /\ call_random' = <<>>
    /\ result' = "Ok"
    /\ UNCHANGED <<RaffleState, events, transfers>>

CallParticipate ==
    \E participant \in ParticipantInputs(participant_list) :
        \E value \in DepositInputs(participant) :
            participate(participant, value)

CallDrawWinner ==
    \E random_hash \in RandomHashes, transfer_ok \in BOOLEAN :
        draw_winner(random_hash, transfer_ok)

Next ==
    \/ CallParticipate
    \/ CallDrawWinner
    \/ advance_block

Spec == Init /\ [][Next]_vars

\* the host keeps producing blocks and draw_winner keeps being called; the
\* pot receiver, which no check of the contract reads, is the last account
FairInit ==
    /\ Init
    /\ pot_receiver = NumAccounts

FairSpec ==
    FairInit /\ [][Next]_vars /\ WF_vars(advance_block) /\ WF_vars(CallDrawWinner)

\* ------------------------------------------------------------------ claims
IsCall(o) == o \in {"participate", "draw_winner"}

Last(s) == s[Len(s)]

Filled(list) == {i \in DOMAIN list : list[i] # NoAccount}

\* C1: every participate or draw_winner call that returns an error leaves the
\* whole contract storage (participants, total balance, winners and winner
\* count, enough_participants, start_time, pot_receiver) as it was.
C1_ErrorLeavesStateUnchanged ==
    [][(IsCall(op') /\ result' \in Errors) => RaffleState' = RaffleState]_vars

\* C2: once RAFFLE_WINNERS winners are stored, transfer was invoked exactly
\* once, to pot_receiver, with the total balance of the last draw (which no
\* later call changes); with fewer stored winners it was never invoked.
C2_TransferExactlyOnce ==
    /\ winners = RAFFLE_WINNERS =>
         /\ Len(transfers) = 1
         /\ transfers[1].destination = pot_receiver
         /\ transfers[1].value = total_balance
    /\ winners < RAFFLE_WINNERS => transfers = <<>>

C2_Witness ==
    /\ winners = RAFFLE_WINNERS
    /\ op = "draw_winner"
    /\ Len(transfers) = 1
    /\ transfers[1].value > RAFFLE_TRIGGER * DEPOSIT_MIN

\* C3 as stated: once the raffle is finished, every later participate and
\* draw_winner call returns RaffleFinished and changes neither the storage
\* nor the event log.
C3_FinishedRejectsAll ==
    [][(winners = RAFFLE_WINNERS /\ IsCall(op')) =>
          /\ result' = "RaffleFinished"
          /\ RaffleState' = RaffleState
          /\ events' = events]_vars

\* C3 as amended: once the raffle is finished, every later draw_winner call
\* returns RaffleFinished, every later participate call returns
\* RaffleFinished unless its deposit is outside the limits, in which case it
\* returns EndowmentOutOfLimits, and no later call changes the storage, emits
\* an event or invokes a transfer.
C3_FinishedTerminal ==
    [][(winners = RAFFLE_WINNERS /\ IsCall(op')) =>
          /\ result' =
               IF /\ op' = "participate"
                  /\ (call_value' < DEPOSIT_MIN \/ call_value' > DEPOSIT_MAX)
               THEN "EndowmentOutOfLimits"
               ELSE "RaffleFinished"
          /\ RaffleState' = RaffleState
          /\ events' = events
          /\ transfers' = transfers]_vars

C3_Witness ==
    /\ winners = RAFFLE_WINNERS
    /\ op = "participate"
    /\ result = "RaffleFinished"
    /\ call_participant \notin Range(participant_list)

C5_ParticipateRegisters ==
    /\ [][(/\ op' = "participate"
            /\ DEPOSIT_MIN < call_value' /\ call_value' < DEPOSIT_MAX
            /\ winners # RAFFLE_WINNERS
            /\ call_participant' \notin Range(participant_list)) =>
              /\ result' = "Ok"
              /\ participant_list' = Append(participant_list, call_participant')
              /\ total_balance' = total_balance + call_value'
              /\ events' =
                   Append(events, NewParticipant(call_participant', call_value'))]_vars
    /\ [](LET joined == EventsOfType("NewParticipant") IN
            participant_list = [i \in 1..Len(joined) |-> joined[i].participant])

C5_Witness ==
    /\ op = "participate"
    /\ result = "Ok"
    /\ DEPOSIT_MIN < call_value /\ call_value < DEPOSIT_MAX
    /\ Len(participant_list) >= 2
    /\ Last(participant_list) = call_participant

\* C6: the participant list never holds an account twice: a participate call
\* with a deposit within the limits on an unfinished raffle for an account
\* already registered returns AlreadyParticipating and leaves the
\* participants and the total balance unchanged.
C6_NoDuplicateParticipants ==
    /\ [](\A i, j \in 1..Len(participant_list) :
            participant_list[i] = participant_list[j] => i = j)
    /\ [][(/\ op' = "participate"
            /\ DEPOSIT_MIN <= call_value' /\ call_value' <= DEPOSIT_MAX
            /\ winners # RAFFLE_WINNERS
            /\ call_participant' \in Range(participant_list)) =>
              /\ result' = "AlreadyParticipating"
              /\ participant_list' = participant_list
              /\ total_balance' = total_balance]_vars

C6_Witness ==
    /\ op = "participate"
    /\ result = "AlreadyParticipating"
    /\ Len(participant_list) >= 2
    /\ call_participant = participant_list[1]

\* C7: enough_participants is true exactly when at least RAFFLE_TRIGGER
\* accounts are registered, and once true it is never reset.
C7_EnoughParticipantsIffTrigger ==
    /\ [](enough_participants <=> Len(participant_list) >= RAFFLE_TRIGGER)
    /\ [][enough_participants => enough_participants']_vars

C7_Witness ==
    /\ enough_participants
    /\ Len(participant_list) > RAFFLE_TRIGGER

\* C8: on an unfinished raffle without enough participants draw_winner
\* returns TooFewParticpants, changes no storage, emits no event and invokes
\* no transfer.
C8_DrawBeforeTriggerRejected ==
    [][(/\ op' = "draw_winner"
        /\ winners # RAFFLE_WINNERS
        /\ ~enough_participants) =>
          /\ result' = "TooFewParticpants"
          /\ RaffleState' = RaffleState
          /\ events' = events
          /\ transfers' = transfers]_vars

C8_Witness ==
    /\ op = "draw_winner"
    /\ result = "TooFewParticpants"
    /\ Len(participant_list) > 0

\* C9: on an unfinished raffle with enough participants and
\* block_timestamp - start_time < DURATION_IN_MS, draw_winner returns
\* RaffleStillOpen, stores no winner and emits exactly one RaffleOpen event;
\* a winner is only stored when block_timestamp - start_time >=
\* DURATION_IN_MS, where start_time is the timestamp of the registration
\* that reached RAFFLE_TRIGGER.
C9_DrawGatedByCountdown ==
    /\ [][(/\ op' = "draw_winner"
            /\ winners # RAFFLE_WINNERS
            /\ enough_participants
            /\ now - start_time < DURATION_IN_MS) =>
              /\ result' = "RaffleStillOpen"
              /\ winners' = winners
              /\ winner_list' = winner_list
              /\ Len(events') = Len(events) + 1
              /\ SubSeq(events', 1, Len(events)) = events
              /\ Last(events').type = "RaffleOpen"]_vars
    /\ [][(winners' # winners \/ winner_list' # winner_list) =>
              /\ op' = "draw_winner"
              /\ now - start_time >= DURATION_IN_MS]_vars
    /\ [][(/\ Len(participant_list) < RAFFLE_TRIGGER
            /\ Len(participant_list') >= RAFFLE_TRIGGER) =>
              start_time' = now]_vars
    /\ [][Len(participant_list) >= RAFFLE_TRIGGER =>
              start_time' = start_time]_vars

C9_Witness ==
    /\ op = "draw_winner"
    /\ result = "RaffleStillOpen"
    /\ now - start_time = DURATION_IN_MS - 1
    /\ start_time > 0
    /\ Last(events).type = "RaffleOpen"

\* C10: the winner count is between 0 and RAFFLE_WINNERS, the filled slots of
\* winner_list are exactly the first `winners` slots, and finished() holds
\* exactly when RAFFLE_WINNERS slots are filled.
C10_WinnerListShape ==
    /\ winners \in 0..RAFFLE_WINNERS
    /\ DOMAIN winner_address = 1..RAFFLE_WINNERS
    /\ Filled(winner_address) = 1..winners
    /\ finished <=> Cardinality(Filled(winner_address)) = RAFFLE_WINNERS

C10_Witness ==
    /\ winners = 1
    /\ Filled(winner_list) = {1}
    /\ ~finished

\* C11: participate applies its checks in the order deposit limits, finished,
\* already registered, and returns the error of the first check that fails:
\* an out-of-limits deposit gives EndowmentOutOfLimits even on a finished
\* raffle or for a registered account, and a deposit within the limits on a
\* finished raffle gives RaffleFinished even for a registered account.
C11_ParticipateCheckOrder ==
    [][op' = "participate" =>
          result' =
            IF call_value' < DEPOSIT_MIN \/ call_value' > DEPOSIT_MAX
            THEN "EndowmentOutOfLimits"
            ELSE IF winners = RAFFLE_WINNERS
            THEN "RaffleFinished"
            ELSE IF call_participant' \in Range(participant_list)
            THEN "AlreadyParticipating"
            ELSE "Ok"]_vars

C11_Witness ==
    /\ op = "participate"
    /\ winners = RAFFLE_WINNERS
    /\ call_participant \in Range(participant_list)
    /\ call_value > DEPOSIT_MAX
    /\ result = "EndowmentOutOfLimits"

RECURSIVE SumOfValues(_)
SumOfValues(joined) ==
    IF joined = <<>> THEN 0
    ELSE joined[1].value + SumOfValues(Tail(joined))

\* C12: the total balance is the sum of the deposits of the participate calls
\* that returned Ok, one deposit per participant, and no call decreases it.
C12_TotalBalanceIsSumOfDeposits ==
    /\ [](LET joined == EventsOfType("NewParticipant") IN
            /\ Len(joined) = Len(participant_list)
            /\ total_balance = SumOfValues(joined))
    /\ [][total_balance' >= total_balance]_vars
    /\ [][total_balance' # total_balance =>
            /\ op' = "participate"
            /\ result' = "Ok"
            /\ total_balance' = total_balance + call_value']_vars

C12_Witness ==
    /\ Len(participant_list) >= 3
    /\ total_balance = 2 * DEPOSIT_MIN + 1 + DEPOSIT_MAX
    /\ op = "participate"
    /\ result = "Ok"

\* the first four bytes of a hash read big-endian as an unsigned 32-bit value
U32BigEndian(bytes) ==
    ((bytes[1] * 256 + bytes[2]) * 256 + bytes[3]) * 256 + bytes[4]

\* C13: a draw that stores a winner stores participants[r mod N], where r is
\* the 32-bit value obtained from env().random in that call and N is the
\* number of participants at that call; so every winner stored is a
\* participant.
C13_WinnerIsRandomIndexModLength ==
    /\ [][winners' # winners =>
            /\ winners' = winners + 1
            /\ call_random' \in RandomHashes
            /\ winner_list'[winners'] =
                 participant_list[
                   (U32BigEndian(call_random') % Len(participant_list)) + 1]]_vars
    /\ [](\A i \in 1..winners : winner_list[i] \in Range(participant_list))

C13_Witness ==
    /\ winners = RAFFLE_WINNERS
    /\ Len(participant_list) > RAFFLE_TRIGGER
    /\ call_random = <<1, 2, 0, 4>>
    /\ winner_list[RAFFLE_WINNERS] = participant_list[5]
    /\ winner_list[1] # winner_list[RAFFLE_WINNERS]

\* C14: when the transfer fails on the draw that stores the last winner,
\* draw_winner returns TransferError with the raffle already finished; from
\* then on the raffle stays finished, every later draw_winner returns
\* RaffleFinished and transfer is never invoked again.
C14_FailedTransferIsFinal ==
    /\ [][(op' = "draw_winner" /\ result' = "TransferError") =>
            /\ winners = RAFFLE_WINNERS - 1
            /\ winners' = RAFFLE_WINNERS
            /\ Len(transfers') = Len(transfers) + 1
            /\ ~Last(transfers').ok]_vars
    /\ [][(winners = RAFFLE_WINNERS /\ ~Last(transfers).ok) =>
            /\ winners' = RAFFLE_WINNERS
            /\ transfers' = transfers
            /\ (op' = "draw_winner" => result' = "RaffleFinished")]_vars

C14_Witness ==
    /\ winners = RAFFLE_WINNERS
    /\ Len(transfers) = 1
    /\ ~transfers[1].ok
    /\ op = "draw_winner"
    /\ result = "RaffleFinished"

\* C15: every draw that stores a winner emits exactly one RaffleWinner event
\* with that winner, so in every state the number of RaffleWinner events is
\* the winner count and their winners, in order, are the filled entries of
\* winner_list.
C15_WinnerEventPerStoredWinner ==
    LET drawn == EventsOfType("RaffleWinner") IN
    /\ Len(drawn) = winners
    /\ \A i \in 1..Len(drawn) : drawn[i].winner = winner_list[i]

\* C16: the value carried by a RaffleOpen event is the time remaining until
\* the draw is allowed, DURATION_IN_MS - (block_timestamp - start_time) at the
\* rejected draw_winner call.
C16_RaffleOpenCarriesTimeRemaining ==
    [][(op' = "draw_winner" /\ result' = "RaffleStillOpen") =>
          /\ Last(events').type = "RaffleOpen"
          /\ Last(events').time_remaining =
               DURATION_IN_MS - (now - start_time)]_vars

\* C17: draw_winner, whether it succeeds or fails, never changes the
\* participants, the total balance, enough_participants, start_time or
\* pot_receiver (a drawn winner stays in the pool and may be drawn again);
\* participate never changes the winner list, the winner count or
\* pot_receiver; pot_receiver keeps the value given to the constructor.
C17_FrameOfCalls ==
    /\ [][op' = "draw_winner" =>
            /\ participant_list' = participant_list
            /\ total_balance' = total_balance
            /\ enough_participants' = enough_participants
            /\ start_time' = start_time
            /\ pot_receiver' = pot_receiver]_vars
    /\ [][op' = "participate" =>
            /\ winner_list' = winner_list
            /\ winners' = winners
            /\ pot_receiver' = pot_receiver]_vars
    /\ [][pot_receiver' = pot_receiver]_vars

C17_Witness ==
    /\ winners = RAFFLE_WINNERS
    /\ winner_list[1] = winner_list[RAFFLE_WINNERS]
    /\ winner_list[1] \in Range(participant_list)
    /\ op = "draw_winner"
    /\ result = "Ok"

\* C18: start_time is written exactly once, by the participate call that
\* brings the number of participants to RAFFLE_TRIGGER; participate calls
\* accepted after that add a participant and a deposit but neither restart
\* the timer nor change enough_participants.
C18_StartTimeWrittenOnce ==
    /\ [][start_time' # start_time =>
            /\ op' = "participate"
            /\ result' = "Ok"
            /\ Len(participant_list) = RAFFLE_TRIGGER - 1
            /\ Len(participant_list') = RAFFLE_TRIGGER
            /\ ~enough_participants
            /\ start_time' = now]_vars
    /\ [][(Len(participant_list) < RAFFLE_TRIGGER
           /\ Len(participant_list') = RAFFLE_TRIGGER) =>
            start_time' # start_time]_vars
    /\ [][(op' = "participate" /\ result' = "Ok" /\ enough_participants) =>
            /\ Len(participant_list') = Len(participant_list) + 1
            /\ total_balance' = total_balance + call_value'
            /\ start_time' = start_time
            /\ enough_participants']_vars

C18_Witness ==
    /\ op = "participate"
    /\ result = "Ok"
    /\ Len(participant_list) = RAFFLE_TRIGGER + 1
    /\ winners = 1
    /\ now > start_time
    /\ start_time > 0

\* C19: once enough_participants is set, if the clock keeps advancing (here:
\* the countdown ends within the modelled time, start_time + DURATION_IN_MS
\* <= MaxTime) and draw_winner keeps being called, the raffle eventually is
\* finished, whether or not the transfer succeeds; every draw_winner call
\* that passes the timer gate stores exactly one winner, so RAFFLE_WINNERS
\* such calls finish it.
C19_EventuallyFinished ==
    /\ (enough_participants /\ start_time + DURATION_IN_MS <= MaxTime)
         ~> (winners = RAFFLE_WINNERS)
    /\ [][(op' = "draw_winner" /\ result' \in {"Ok", "TransferError"}) <=>
            winners' = winners + 1]_vars
    /\ [][(op' = "draw_winner" /\ result' = "TransferError") =>
            winners' = RAFFLE_WINNERS]_vars

C19_Witness ==
    /\ winners = RAFFLE_WINNERS
    /\ op = "draw_winner"
    /\ result = "TransferError"
    /\ now = start_time + DURATION_IN_MS

\* C20: draw_winner never faults under a non-decreasing clock.  Whenever its
\* timer check runs (raffle unfinished, enough participants) the block
\* timestamp is at least start_time, so the unsigned subtraction does not
\* underflow; whenever it computes an index (timer elapsed as well) there are
\* at least RAFFLE_TRIGGER > 0 participants, so the modulo is defined and the
\* index of every hash is below the number of participants; and the slot it
\* stores the winner in, the winner count, is below RAFFLE_WINNERS.
C20_DrawWinnerNeverFaults ==
    /\ (winners # RAFFLE_WINNERS /\ enough_participants) => now >= start_time
    /\ (/\ winners # RAFFLE_WINNERS
        /\ enough_participants
        /\ now - start_time >= DURATION_IN_MS) =>
          /\ RAFFLE_TRIGGER > 0
          /\ Len(participant_list) >= RAFFLE_TRIGGER
          /\ \A h \in RandomHashes :
               LET index == U32BigEndian(h) % Len(participant_list) IN
               index >= 0 /\ index < Len(participant_list)
          /\ winners >= 0
          /\ winners < RAFFLE_WINNERS

C20_Witness ==
    /\ op = "draw_winner"
    /\ result = "Ok"
    /\ winners = 1
    /\ now - start_time >= DURATION_IN_MS
    /\ winner_list[1] = participant_list[Len(participant_list)]

====
